---------------------------- MODULE Spec2Model ----------------------------
(***************************************************************************)
(* Job Application Tracker: the Express REST API of backend/server.js      *)
(* over its two PostgreSQL tables (users, job_applications), with JWT      *)
(* authentication and per-user ownership scoping.                          *)
(*                                                                         *)
(* Values.  Every JSON / SQL text value is a TLA+ string.  ABSENT stands   *)
(* for a JavaScript undefined (a key missing from the body or the query),  *)
(* NULL for a JSON or SQL null.  Ids and timestamps are integers.  The     *)
(* clock `now` counts days; CURRENT_TIMESTAMP is `now` and CURRENT_DATE    *)
(* is Today(now).                                                          *)
(*                                                                         *)
(* Rate limits.  authLimiter (5 unsuccessful register / login requests per *)
(* client and window) is part of Register and Login.  The general limiter  *)
(* (100 requests per window on every route) is left out: the model covers  *)
(* windows in which a client sends fewer than 100 requests.                *)
(*                                                                         *)
(* Client.  Of the JobTracker component the model has the state that the   *)
(* fetches fill (user, jobs, stats, pagination, filters, currentView), the *)
(* two effects that fetch, handleAuth and handleLogout.  The component     *)
(* never calls setFilters, so filters stays as it starts.  The page is not *)
(* reloaded (verifyToken does not run).                                    *)
(***************************************************************************)
EXTENDS Integers, Sequences, FiniteSets, TLC

VARIABLES
    users,        \* rows of table users
    nextUserId,   \* the SERIAL sequence of users.id
    jobs,         \* rows of table job_applications
    nextJobId,    \* the SERIAL sequence of job_applications.id
    now,          \* the clock, in days
    token,        \* per client: the token it keeps (localStorage 'token')
    resp,         \* the last request served and the response it got
    hits,         \* per client: the requests authLimiter counts in the current window
    flight,       \* the requests whose handler has started and not yet replied
    ui,           \* per client: the state of the JobTracker component
    calls         \* the fetches of the clients that have not yet returned

vars == <<users, nextUserId, jobs, nextJobId, now, token, resp, hits, flight, ui, calls>>

-----------------------------------------------------------------------------
(* Bounds of the model *)

MaxUsers == 2     \* registrations ever accepted (values of users.id)
MaxJobs == 2      \* job rows ever inserted (values of job_applications.id)
MaxTime == 8      \* last day of the clock
MaxHits == 6      \* requests authLimiter counts for one client in one window
MaxFlight == 2    \* requests a handler of which awaits the store, at once
MaxCalls == 2     \* fetches of the clients awaiting their response, at once

(* Program constants *)

TokenTTL == 7          \* jwt.sign(..., { expiresIn: '7d' })
MinPasswordLen == 6    \* password.length < 6
DefaultPage == 1       \* page = 1
DefaultLimit == 20     \* limit = 20
AuthLimit == 5         \* authLimiter: max: 5
GeneralLimit == 100    \* limiter: max: 100
ClientLimit == 10      \* queryParams.append('limit', '10')

JWT_SECRET == "JWT_SECRET"

ABSENT == "<undefined>"
NULL == "<null>"

Clients == {"c1"}

-----------------------------------------------------------------------------
(* JavaScript helpers *)

\* !v for the values a JSON string field can take
Falsy(v) == v \in {ABSENT, NULL, ""}

\* a || null
OrNullAbsentOnly(v) == IF v = ABSENT THEN NULL ELSE v

OrNull(v) == IF Falsy(v) THEN NULL ELSE v

\* pg sends undefined parameters as NULL
PgParam(v) == IF v = ABSENT THEN NULL ELSE v

\* CURRENT_DATE at clock value t
Today(t) == "day-" \o ToString(t)

-----------------------------------------------------------------------------
(* Session tokens: jwt.sign / jwt.verify *)

NoToken == [kind |-> "none", userId |-> 0, username |-> "", iat |-> 0, exp |-> 0, sig |-> ""]

\* a string that is not a JWT
Garbage == [kind |-> "garbage", userId |-> 0, username |-> "", iat |-> 0, exp |-> 0, sig |-> ""]

\* jwt.sign({userId, username}, secret, {expiresIn: '7d'}) at clock value t
JwtSign(userId, username, secret, t) ==
    [kind |-> "jwt", userId |-> userId, username |-> username,
     iat |-> t, exp |-> t + TokenTTL, sig |-> secret]

\* jwt.verify(token, JWT_SECRET) at clock value t: TRUE iff it calls back without err
JwtValid(tok, t) ==
    /\ tok.kind = "jwt"
    /\ tok.sig = JWT_SECRET
    /\ t < tok.exp

\* the Authorization header: absent, or "<scheme> <token>" (token part possibly missing)
NoHeader == [set |-> FALSE, token |-> NoToken]
Bearer(tok) == [set |-> TRUE, token |-> tok]

Ok(user) == [ok |-> TRUE, status |-> 200, error |-> "", user |-> user]
Deny(status, error) == [ok |-> FALSE, status |-> status, error |-> error, user |-> NoToken]

\* authenticateToken: what the middleware answers, or the req.user it passes on
authenticateTokenNoVerify(header, t) ==
    IF ~header.set \/ header.token.kind = "none"
    THEN Deny(401, "Access token required")
    ELSE Ok(header.token)

authenticateToken(header, t) ==
    IF ~header.set \/ header.token.kind = "none"
    THEN Deny(401, "Access token required")
    ELSE IF ~JwtValid(header.token, t)
         THEN Deny(403, "Invalid or expired token")
         ELSE Ok(header.token)

-----------------------------------------------------------------------------
(* Responses *)

NoBody == [none |-> TRUE]

\* res.status(status).json({ error })
Fail(status, error) == [status |-> status, error |-> error, body |-> NoBody]

\* res.status(status).json(body)
Reply(status, body) == [status |-> status, error |-> "", body |-> body]

InternalError == Fail(500, "Internal server error")

-----------------------------------------------------------------------------
(* Auth service: users table, register, login, me *)

\* bcrypt.hash(password, 12) and bcrypt.compare(password, hash)
BcryptHash(password) == "bcrypt$12$" \o password
BcryptCompare(password, hash) == hash = BcryptHash(password)

\* SELECT id FROM users WHERE email = $1 OR username = $2
ExistingUserEmailOnly(email, username) == {u \in users : u.email = email}

ExistingUser(email, username) ==
    {u \in users : u.email = email \/ u.username = username}

\* RETURNING id, username, email, created_at
PublicUser(u) ==
    [id |-> u.id, username |-> u.username, email |-> u.email, created_at |-> u.created_at]

\* INSERT INTO users (username, email, password_hash) VALUES ($1, $2, $3)
NewUserSwapped(id, body, t) ==
    [id |-> id, username |-> body.email, email |-> body.username,
     password_hash |-> BcryptHash(body.password), created_at |-> t, updated_at |-> t]

NewUser(id, body, t) ==
    [id |-> id, username |-> body.username, email |-> body.email,
     password_hash |-> BcryptHash(body.password), created_at |-> t, updated_at |-> t]

\* POST /api/auth/register: the response, the users table after it and the token issued
RegisterHandler(body) ==
    IF Falsy(body.username) \/ Falsy(body.email) \/ Falsy(body.password)
    THEN [res |-> Fail(400, "Username, email, and password are required"),
          users |-> users, issued |-> NoToken]
    ELSE IF Len(body.password) < MinPasswordLen
    THEN [res |-> Fail(400, "Password must be at least 6 characters long"),
          users |-> users, issued |-> NoToken]
    ELSE IF ExistingUser(body.email, body.username) # {}
    THEN [res |-> Fail(409, "User with this email or username already exists"),
          users |-> users, issued |-> NoToken]
    ELSE LET newUser == NewUser(nextUserId, body, now)
             tok == JwtSign(newUser.id, newUser.username, JWT_SECRET, now)
         IN  [res |-> Reply(201, [message |-> "User created successfully",
                                  token |-> tok, user |-> PublicUser(newUser)]),
              users |-> users \cup {newUser}, issued |-> tok]

\* the answer of login when no row has the email
NoSuchUser == Fail(401, "Invalid email or password")

\* the answer of login when bcrypt.compare fails
WrongPasswordTelling == Fail(401, "Invalid password")

WrongPassword == Fail(401, "Invalid email or password")

\* POST /api/auth/login: the response and the token issued
LoginHandler(body) ==
    IF Falsy(body.email) \/ Falsy(body.password)
    THEN [res |-> Fail(400, "Email and password are required"), issued |-> NoToken]
    ELSE LET rows == {u \in users : u.email = body.email}
         IN  IF rows = {}
             THEN [res |-> NoSuchUser, issued |-> NoToken]
             ELSE LET user == CHOOSE u \in rows : TRUE
                  IN  IF ~BcryptCompare(body.password, user.password_hash)
                      THEN [res |-> WrongPassword, issued |-> NoToken]
                      ELSE LET tok == JwtSign(user.id, user.username, JWT_SECRET, now)
                           IN  [res |-> Reply(200, [message |-> "Login successful",
                                                    token |-> tok,
                                                    user |-> [id |-> user.id,
                                                              username |-> user.username,
                                                              email |-> user.email]]),
                                issued |-> tok]

\* GET /api/auth/me on the users table `us`, after authenticateToken passed reqUser on
MeHandler(us, reqUser) ==
    LET rows == {u \in us : u.id = reqUser.userId}
    IN  IF rows = {}
        THEN Fail(404, "User not found")
        ELSE Reply(200, [user |-> PublicUser(CHOOSE u \in rows : TRUE)])

-----------------------------------------------------------------------------
(* Text as JavaScript and PostgreSQL read it *)

Digits == {"0", "1", "2", "3", "4", "5", "6", "7", "8", "9"}

CharAt(s, i) == SubSeq(s, i, i)

\* the text of an integer: an optional sign and one digit or more
IsIntegerText(s) ==
    LET body == IF Len(s) > 0 /\ CharAt(s, 1) = "-" THEN SubSeq(s, 2, Len(s)) ELSE s
    IN  /\ Len(body) > 0
        /\ \A i \in 1..Len(body) : CharAt(body, i) \in Digits

\* a decimal numeral: integer text, or digits around one "."
IsNumericText(s) ==
    LET body == IF Len(s) > 0 /\ CharAt(s, 1) = "-" THEN SubSeq(s, 2, Len(s)) ELSE s
        dots == {i \in 1..Len(body) : CharAt(body, i) = "."}
    IN  /\ \E i \in 1..Len(body) : CharAt(body, i) \in Digits
        /\ \A i \in 1..Len(body) : CharAt(body, i) \in Digits \cup {"."}
        /\ Cardinality(dots) <= 1

DigitValue(c) == CHOOSE d \in 0..9 : ToString(d) = c

RECURSIVE NatValue(_)
NatValue(s) ==
    IF Len(s) = 0 THEN 0
    ELSE 10 * NatValue(SubSeq(s, 1, Len(s) - 1)) + DigitValue(CharAt(s, Len(s)))

\* the value of an integer text
IntValue(s) ==
    IF CharAt(s, 1) = "-" THEN 0 - NatValue(SubSeq(s, 2, Len(s))) ELSE NatValue(s)

\* isNaN(v) for a string v: Number(v) is NaN  ("" converts to 0)
JsIsNaN(s) == ~(s = "" \/ IsNumericText(s))

\* a DATE column accepts NULL and date text; dates are written "day-<n>"
IsDateText(s) == Len(s) > 4 /\ SubSeq(s, 1, 4) = "day-" /\ IsIntegerText(SubSeq(s, 5, Len(s)))
DateAccepts(v) == v = NULL \/ IsDateText(v)

Upper == "ABCDEFGHIJKLMNOPQRSTUVWXYZ"
Lower == "abcdefghijklmnopqrstuvwxyz"

LowerChar(c) ==
    IF \E i \in 1..Len(Upper) : CharAt(Upper, i) = c
    THEN CharAt(Lower, CHOOSE i \in 1..Len(Upper) : CharAt(Upper, i) = c)
    ELSE c

RECURSIVE ToLower(_)
ToLower(s) ==
    IF Len(s) = 0 THEN "" ELSE LowerChar(CharAt(s, 1)) \o ToLower(SubSeq(s, 2, Len(s)))

\* s LIKE p: % matches any run of characters, _ any one character
RECURSIVE Like(_, _)
Like(s, p) ==
    IF Len(p) = 0 THEN Len(s) = 0
    ELSE LET c == CharAt(p, 1)
             rest == SubSeq(p, 2, Len(p))
         IN  IF c = "%"
             THEN \E k \in 0..Len(s) : Like(SubSeq(s, k + 1, Len(s)), rest)
             ELSE /\ Len(s) > 0
                  /\ (c = "_" \/ c = CharAt(s, 1))
                  /\ Like(SubSeq(s, 2, Len(s)), rest)

\* s ILIKE p
ILike(s, p) == Like(ToLower(s), ToLower(p))

-----------------------------------------------------------------------------
(* Job query / mutation service: table job_applications *)

Statuses == {"applied", "interview", "offer", "rejected", "withdrawn"}

\* a JS number is a set holding at most one integer; {} is NaN
NaN == {}
Num(n) == {n}
Mul(a, b) == {x * y : x \in a, y \in b}
Sub(a, b) == {x - y : x \in a, y \in b}

\* Number(v) of an integer text or of a text that is no numeral
ToNumber(s) ==
    IF s = "" THEN Num(0) ELSE IF IsIntegerText(s) THEN Num(IntValue(s)) ELSE NaN

\* parseInt(v)
ParseInt(s) == IF IsIntegerText(s) THEN Num(IntValue(s)) ELSE NaN

\* Math.ceil(a / b) of integers, b > 0
FloorDiv(a, b) == a \div b

CeilDiv(a, b) == (a + b - 1) \div b

\* the rows of `store` that the WHERE clause of GET /api/jobs selects
MatchingNoOwner(store, userId, status, company) ==
    LET pattern == "%" \o company \o "%"
    IN  {j \in store :
            /\ (~Falsy(status) => j.status = status)
            /\ (~Falsy(company) => ILike(j.company_name, pattern))}

Matching(store, userId, status, company) ==
    LET pattern == "%" \o company \o "%"
    IN  {j \in store :
            /\ j.user_id = userId
            /\ (~Falsy(status) => j.status = status)
            /\ (~Falsy(company) => ILike(j.company_name, pattern))}

\* ORDER BY created_at DESC: every order of `rows` the clause allows
Orderings(rows) ==
    {o \in [1..Cardinality(rows) -> rows] :
        /\ \A i, k \in DOMAIN o : i # k => o[i] # o[k]
        /\ \A i, k \in DOMAIN o : i < k => o[i].created_at >= o[k].created_at}

\* GET /api/jobs, with the rows in the order `order` the store returned them in
ListHandler(store, reqUser, query, order) ==
    LET page == IF query.page = ABSENT THEN Num(DefaultPage) ELSE ToNumber(query.page)
        limitNum == IF query.limit = ABSENT THEN Num(DefaultLimit) ELSE ToNumber(query.limit)
        limitOk == query.limit = ABSENT \/ IsIntegerText(query.limit)
        offset == Mul(Sub(page, Num(1)), limitNum)
        total == Cardinality(Matching(store, reqUser.userId, query.status, query.company))
    IN  IF ~limitOk \/ offset = NaN
           \/ (\E l \in limitNum : l < 0) \/ (\E o \in offset : o < 0)
        THEN InternalError
        ELSE LET l == CHOOSE x \in limitNum : TRUE
                 o == CHOOSE x \in offset : TRUE
                 last == IF o + l < total THEN o + l ELSE total
             IN  Reply(200,
                    [jobs |-> SubSeq(order, o + 1, last),
                     pagination |->
                        [page |-> IF query.page = ABSENT THEN Num(DefaultPage)
                                  ELSE ParseInt(query.page),
                         limit |-> IF query.limit = ABSENT THEN Num(DefaultLimit)
                                   ELSE ParseInt(query.limit),
                         total |-> total,
                         totalPages |-> IF l = 0 THEN NaN ELSE Num(CeilDiv(total, l))]])

\* every response GET /api/jobs can give on `store`
ListResponses(store, reqUser, query) ==
    {ListHandler(store, reqUser, query, order) :
        order \in Orderings(Matching(store, reqUser.userId, query.status, query.company))}

\* COUNT(CASE WHEN status = s THEN 1 END)
CountStatus(rows, s) == Cardinality({j \in rows : j.status = s})

\* GET /api/stats
StatsHandlerNoOwner(store, reqUser) ==
    Reply(200, [total |-> Cardinality(store),
                applied |-> CountStatus(store, "applied"),
                interview |-> CountStatus(store, "interview"),
                offer |-> CountStatus(store, "offer"),
                rejected |-> CountStatus(store, "rejected"),
                withdrawn |-> CountStatus(store, "withdrawn")])

StatsHandler(store, reqUser) ==
    LET rows == {j \in store : j.user_id = reqUser.userId}
    IN  Reply(200, [total |-> Cardinality(rows),
                    applied |-> CountStatus(rows, "applied"),
                    interview |-> CountStatus(rows, "interview"),
                    offer |-> CountStatus(rows, "offer"),
                    rejected |-> CountStatus(rows, "rejected"),
                    withdrawn |-> CountStatus(rows, "withdrawn")])

\* WHERE id = $1 AND user_id = $2, the id given as text
OwnedRowsAnyOwner(store, id, userId) ==
    LET n == IntValue(id) IN {j \in store : j.id = n}

OwnedRows(store, id, userId) ==
    LET n == IntValue(id) IN {j \in store : j.id = n /\ j.user_id = userId}

\* GET /api/jobs/:id
GetHandler(store, reqUser, id) ==
    IF Falsy(id) \/ JsIsNaN(id) THEN Fail(400, "Invalid job ID")
    ELSE IF ~IsIntegerText(id) THEN InternalError
    ELSE LET rows == OwnedRows(store, id, reqUser.userId)
         IN  IF rows = {} THEN Fail(404, "Job application not found")
             ELSE Reply(200, CHOOSE j \in rows : TRUE)

\* const { ..., status = 'applied', ... } = req.body
StatusOrDefaultNone(status) == status

StatusOrDefault(status) == IF status = ABSENT THEN "applied" ELSE status

\* !company_name || !job_title
MissingRequiredAbsentOnly(body) == body.company_name = ABSENT \/ body.job_title = ABSENT

MissingRequired(body) == Falsy(body.company_name) \/ Falsy(body.job_title)

\* the thirteen editable columns as the INSERT / UPDATE parameters set them
Columns(body, status) ==
    [company_name |-> body.company_name,
     job_title |-> body.job_title,
     job_url |-> PgParam(body.job_url),
     location |-> PgParam(body.location),
     salary_range |-> PgParam(body.salary_range),
     application_date |-> OrNull(body.application_date),
     status |-> PgParam(status),
     description |-> PgParam(body.description),
     requirements |-> PgParam(body.requirements),
     notes |-> PgParam(body.notes),
     contact_person |-> PgParam(body.contact_person),
     contact_email |-> PgParam(body.contact_email),
     follow_up_date |-> OrNull(body.follow_up_date)]

\* a row of job_applications
Row(id, userId, cols, createdAt, updatedAt) ==
    [id |-> id, user_id |-> userId,
     company_name |-> cols.company_name, job_title |-> cols.job_title,
     job_url |-> cols.job_url, location |-> cols.location,
     salary_range |-> cols.salary_range, application_date |-> cols.application_date,
     status |-> cols.status, description |-> cols.description,
     requirements |-> cols.requirements, notes |-> cols.notes,
     contact_person |-> cols.contact_person, contact_email |-> cols.contact_email,
     follow_up_date |-> cols.follow_up_date,
     created_at |-> createdAt, updated_at |-> updatedAt]

\* the DATE parameters are text the store can read
DatesAccepted(cols) ==
    DateAccepts(cols.application_date) /\ DateAccepts(cols.follow_up_date)

\* POST /api/jobs: the response, the table and the id sequence after it
CreateHandler(store, nextId, reqUser, body, t) ==
    LET status == StatusOrDefault(body.status)
        cols == Columns(body, status)
    IN  IF MissingRequired(body)
        THEN [res |-> Fail(400, "Company name and job title are required"),
              jobs |-> store, nextId |-> nextId]
        ELSE IF ~DatesAccepted(cols)
        THEN [res |-> InternalError, jobs |-> store, nextId |-> nextId]
        ELSE IF ~\E u \in users : u.id = reqUser.userId
        THEN \* user_id REFERENCES users(id): the insert fails, the id is spent
             [res |-> InternalError, jobs |-> store, nextId |-> nextId + 1]
        ELSE LET row == Row(nextId, reqUser.userId, cols, t, t)
             IN  [res |-> Reply(201, row), jobs |-> store \cup {row},
                  nextId |-> nextId + 1]

\* UPDATE job_applications SET <the thirteen columns>, updated_at = CURRENT_TIMESTAMP
\* on the row `old`
ReplacedPatch(old, cols, t) ==
    LET kept == [f \in DOMAIN cols |-> IF cols[f] = NULL THEN old[f] ELSE cols[f]]
    IN  Row(old.id, old.user_id, kept, old.created_at, t)

Replaced(old, cols, t) == Row(old.id, old.user_id, cols, old.created_at, t)

\* PUT /api/jobs/:id
UpdateHandler(store, reqUser, id, body, t) ==
    LET cols == Columns(body, body.status)
    IN  IF Falsy(id) \/ JsIsNaN(id)
        THEN [res |-> Fail(400, "Invalid job ID"), jobs |-> store]
        ELSE IF MissingRequired(body)
        THEN [res |-> Fail(400, "Company name and job title are required"),
              jobs |-> store]
        ELSE IF ~IsIntegerText(id) \/ ~DatesAccepted(cols)
        THEN [res |-> InternalError, jobs |-> store]
        ELSE LET rows == OwnedRows(store, id, reqUser.userId)
             IN  IF rows = {}
                 THEN [res |-> Fail(404, "Job application not found"), jobs |-> store]
                 ELSE LET old == CHOOSE j \in rows : TRUE
                          row == Replaced(old, cols, t)
                      IN  [res |-> Reply(200, row),
                           jobs |-> (store \ {old}) \cup {row}]

\* DELETE /api/jobs/:id
DeleteHandlerSoft(store, reqUser, id) ==
    LET rows == IF IsIntegerText(id) THEN OwnedRows(store, id, reqUser.userId) ELSE {}
    IN  IF rows = {}
        THEN [res |-> Fail(404, "Job application not found"), jobs |-> store]
        ELSE [res |-> Reply(200, [message |-> "Job application deleted successfully",
                                  deleted |-> CHOOSE j \in rows : TRUE]),
              jobs |-> store]

\* DELETE /api/jobs/:id with the row removed before the owner is looked at
DeleteHandlerEager(store, reqUser, id) ==
    IF Falsy(id) \/ JsIsNaN(id)
    THEN [res |-> Fail(400, "Invalid job ID"), jobs |-> store]
    ELSE IF ~IsIntegerText(id)
    THEN [res |-> InternalError, jobs |-> store]
    ELSE LET rows == OwnedRows(store, id, reqUser.userId)
             hit == OwnedRowsAnyOwner(store, id, reqUser.userId)
         IN  IF rows = {}
             THEN [res |-> Fail(404, "Job application not found"), jobs |-> store \ hit]
             ELSE [res |-> Reply(200, [message |-> "Job application deleted successfully",
                                       deleted |-> CHOOSE j \in rows : TRUE]),
                   jobs |-> store \ hit]

DeleteHandler(store, reqUser, id) ==
    IF Falsy(id) \/ JsIsNaN(id)
    THEN [res |-> Fail(400, "Invalid job ID"), jobs |-> store]
    ELSE IF ~IsIntegerText(id)
    THEN [res |-> InternalError, jobs |-> store]
    ELSE LET rows == OwnedRows(store, id, reqUser.userId)
         IN  IF rows = {}
             THEN [res |-> Fail(404, "Job application not found"), jobs |-> store]
             ELSE LET old == CHOOSE j \in rows : TRUE
                  IN  [res |-> Reply(200, [message |-> "Job application deleted successfully",
                                           deleted |-> old]),
                       jobs |-> store \ {old}]

-----------------------------------------------------------------------------
(* Requests the clients send *)

Usernames == {"alice", "bob"}
Emails == {"a@x.io", "b@x.io"}

RegBody(username, email, password) ==
    [username |-> username, email |-> email, password |-> password]

RegisterBodies ==
    {RegBody(u, e, "secret1") : u \in Usernames, e \in Emails}
        \cup {RegBody("", "a@x.io", "secret1"), RegBody("alice", ABSENT, "secret1"),
              RegBody("alice", "a@x.io", "short"), RegBody("bob", "b@x.io", NULL)}

LoginBodies ==
    [email : Emails \cup {"nobody@x.io"}, password : {"secret1", "wrong-pw"}]
        \cup {[email |-> "", password |-> "secret1"],
              [email |-> "a@x.io", password |-> ABSENT]}

\* a job body: the eight optional text fields all carry `text`
JobBody(company, title, status, appDate, followUp, text) ==
    [company_name |-> company, job_title |-> title, job_url |-> text,
     location |-> text, salary_range |-> text, application_date |-> appDate,
     status |-> status, description |-> text, requirements |-> text, notes |-> text,
     contact_person |-> text, contact_email |-> text, follow_up_date |-> followUp]

JobBodies ==
    {JobBody("Acme", "Engineer", ABSENT, ABSENT, ABSENT, ABSENT),
     JobBody("Globex", "Analyst", "interview", "day-1", "", "text"),
     JobBody("acme labs", "Engineer", "archived", "", "day-2", ""),
     JobBody("Initech", "Tester", NULL, "someday", ABSENT, NULL),
     JobBody("", "Engineer", "offer", "day-1", "day-2", "text"),
     JobBody("Acme", ABSENT, ABSENT, ABSENT, ABSENT, ABSENT),
     JobBody(ABSENT, "", "archived", "someday", "", NULL)}

\* the :id path segment
IdParams == {ToString(n) : n \in 1..(MaxJobs + 1)} \cup {"abc", "1.5"}

Query(status, company, page, limit) ==
    [status |-> status, company |-> company, page |-> page, limit |-> limit]

\* the query without filters, page or limit
NoFilters == Query(ABSENT, ABSENT, ABSENT, ABSENT)

Queries ==
    {Query(s, c, ABSENT, ABSENT) : s \in {ABSENT, "applied"}, c \in {ABSENT, "ACME"}}
        \cup {Query(ABSENT, ABSENT, p, "1") : p \in {"1", "2", "3", "0", "abc"}}
        \cup {Query(ABSENT, ABSENT, "1", l) : l \in {"0", "-1", "abc"}}

\* the Authorization headers a caller can send: none, one without a token, one
\* that is no JWT, a token the server issued to it, and a token it signs itself
\* for any user id
Headers ==
    {NoHeader, Bearer(NoToken), Bearer(Garbage)}
        \cup {Bearer(token[c]) : c \in Clients}
        \cup {Bearer(JwtSign(u, "alice", "other-key", now)) : u \in 1..MaxUsers}

NoInput == [none |-> TRUE]

\* what the server read of the last request, and its response; a request the
\* middleware turned away was read up to its header
Served(op, header, auth, id, input, res) ==
    IF auth.ok
    THEN [op |-> op, header |-> header, id |-> id, input |-> input, res |-> res]
    ELSE [op |-> op, header |-> header, id |-> "", input |-> NoInput,
          res |-> Fail(auth.status, auth.error)]

\* the routes without authenticateToken
Open == Ok(NoToken)

\* the state of the JobTracker component: useState(null) for user and stats,
\* useState([]) for jobs, and the first filters and pagination
NoUser == [id |-> 0, username |-> "", email |-> ""]
NoStats == [none |-> TRUE]
FirstFilters == [status |-> "", company |-> "", page |-> "1"]
FirstPagination == [page |-> Num(1), totalPages |-> Num(1), total |-> 0]

\* the two effects that fetch: [filters, user] and [currentView, user]
Effects == {"jobs", "stats"}

\* the component after its first render and effects, with no token stored;
\* `effects` are the effects React has scheduled and not yet run
Mounted ==
    [user |-> NoUser, jobs |-> <<>>, stats |-> NoStats,
     pagination |-> FirstPagination, filters |-> FirstFilters,
     view |-> "list", effects |-> {}]

\* setUser(data.user)
SignedIn(u) == [id |-> u.id, username |-> u.username, email |-> u.email]

\* a day passes between two observations of the clock
TickDays == (TokenTTL + 1) \div 2

\* authLimiter = rateLimit({ windowMs: 15 min, max: 5, skipSuccessfulRequests: true }):
\* the answer of the limiter once the count of the window has passed max
TooManyRequests == Deny(429, "Too many requests, please try again later.")

\* the limiter counts the request on arrival and passes it on while the count
\* is within max
authLimiterOff(count) == Open

authLimiter(count) == IF count + 1 > AuthLimit THEN TooManyRequests ELSE Open

\* skipSuccessfulRequests: the count of the window after the response; a
\* response with a status below 400 is taken off the count again
Counted(count, gate, res) == IF gate.ok /\ res.status < 400 THEN count ELSE count + 1

NoHits == [c \in Clients |-> 0]

-----------------------------------------------------------------------------
(* The state machine *)

Init ==
    /\ users = {}
    /\ nextUserId = 1
    /\ jobs = {}
    /\ nextJobId = 1
    /\ now = 0
    /\ token = [c \in Clients |-> NoToken]
    /\ resp = Served("none", NoHeader, Open, "", NoInput, Reply(200, NoBody))
    /\ hits = NoHits
    /\ flight = {}
    /\ ui = [c \in Clients |-> Mounted]
    /\ calls = {}

\* handleAuth on the answer of register / login: when response.ok the token
\* goes to localStorage and the user of the answer becomes the component's
\* user, which schedules the effects that depend on user
Keep(c, res, issued) ==
    /\ token' = IF issued.kind = "jwt" THEN [token EXCEPT ![c] = issued] ELSE token
    /\ ui' = IF issued.kind = "jwt"
             THEN [ui EXCEPT ![c].user = SignedIn(res.body.user), ![c].effects = Effects]
             ELSE ui

Register(c, body) ==
    LET gate == authLimiter(hits[c])
        r == IF gate.ok THEN RegisterHandler(body)
             ELSE [res |-> NoBody, users |-> users, issued |-> NoToken]
    IN  /\ hits[c] < MaxHits
        /\ r.users # users => nextUserId <= MaxUsers
        /\ users' = r.users
        /\ nextUserId' = IF r.users # users THEN nextUserId + 1 ELSE nextUserId
        /\ Keep(c, r.res, r.issued)
        /\ resp' = Served("Register", NoHeader, gate, "", body, r.res)
        /\ hits' = [hits EXCEPT ![c] = Counted(hits[c], gate, r.res)]
        /\ UNCHANGED <<jobs, nextJobId, now, flight, calls>>

Login(c, body) ==
    LET gate == authLimiter(hits[c])
        r == IF gate.ok THEN LoginHandler(body) ELSE [res |-> NoBody, issued |-> NoToken]
    IN  /\ hits[c] < MaxHits
        /\ Keep(c, r.res, r.issued)
        /\ resp' = Served("Login", NoHeader, gate, "", body, r.res)
        /\ hits' = [hits EXCEPT ![c] = Counted(hits[c], gate, r.res)]
        /\ UNCHANGED <<users, nextUserId, jobs, nextJobId, now, flight, calls>>

Me(header) ==
    LET auth == authenticateToken(header, now)
    IN  /\ resp' = Served("Me", header, auth, "", NoInput,
                          IF auth.ok THEN MeHandler(users, auth.user) ELSE NoBody)
        /\ UNCHANGED <<users, nextUserId, jobs, nextJobId, now, token, hits, flight, ui, calls>>

List(header, query) ==
    LET auth == authenticateToken(header, now)
    IN  /\ \E res \in (IF auth.ok THEN ListResponses(jobs, auth.user, query)
                       ELSE {NoBody}) :
                resp' = Served("List", header, auth, "", query, res)
        /\ UNCHANGED <<users, nextUserId, jobs, nextJobId, now, token, hits, flight, ui, calls>>

Stats(header) ==
    LET auth == authenticateToken(header, now)
    IN  /\ resp' = Served("Stats", header, auth, "", NoInput,
                          IF auth.ok THEN StatsHandler(jobs, auth.user) ELSE NoBody)
        /\ UNCHANGED <<users, nextUserId, jobs, nextJobId, now, token, hits, flight, ui, calls>>

Get(header, id) ==
    LET auth == authenticateToken(header, now)
    IN  /\ resp' = Served("Get", header, auth, id, NoInput,
                          IF auth.ok THEN GetHandler(jobs, auth.user, id) ELSE NoBody)
        /\ UNCHANGED <<users, nextUserId, jobs, nextJobId, now, token, hits, flight, ui, calls>>

Create(header, body) ==
    LET auth == authenticateToken(header, now)
        r == IF auth.ok THEN CreateHandler(jobs, nextJobId, auth.user, body, now)
             ELSE [res |-> NoBody, jobs |-> jobs, nextId |-> nextJobId]
    IN  /\ r.nextId # nextJobId => nextJobId <= MaxJobs
        /\ jobs' = r.jobs
        /\ nextJobId' = r.nextId
        /\ resp' = Served("Create", header, auth, "", body, r.res)
        /\ UNCHANGED <<users, nextUserId, now, token, hits, flight, ui, calls>>

Update(header, id, body) ==
    LET auth == authenticateToken(header, now)
        r == IF auth.ok THEN UpdateHandler(jobs, auth.user, id, body, now)
             ELSE [res |-> NoBody, jobs |-> jobs]
    IN  /\ jobs' = r.jobs
        /\ resp' = Served("Update", header, auth, id, body, r.res)
        /\ UNCHANGED <<users, nextUserId, nextJobId, now, token, hits, flight, ui, calls>>

Delete(header, id) ==
    LET auth == authenticateToken(header, now)
        r == IF auth.ok THEN DeleteHandler(jobs, auth.user, id)
             ELSE [res |-> NoBody, jobs |-> jobs]
    IN  /\ jobs' = r.jobs
        /\ resp' = Served("Delete", header, auth, id, NoInput, r.res)
        /\ UNCHANGED <<users, nextUserId, nextJobId, now, token, hits, flight, ui, calls>>

\* PUT /api/jobs/:id as its steps run when requests overlap.  The handler
\* checks the token, the id and the required fields and awaits the store; the
\* store runs the one UPDATE statement as a unit (the row is locked while it
\* is written); the handler answers with the row the statement returned.

\* a request whose handler awaits the store, or holds its answer; `client` is
\* set for the requests that authLimiter counts
InFlight(op, client, header, user, id, body, done, res) ==
    [op |-> op, client |-> client, header |-> header, user |-> user, id |-> id,
     input |-> body, done |-> done, res |-> res]

\* the UPDATE statement of request r, run on `store` at time t
CommittedFirstWins(store, r, t) ==
    LET h == UpdateHandler(store, r.user, r.id, r.input, t)
    IN  IF \E d \in flight : d.done /\ d.id = r.id
        THEN [res |-> h.res, jobs |-> store]
        ELSE h

Committed(store, r, t) == UpdateHandler(store, r.user, r.id, r.input, t)

\* the handler passes its checks and sends the UPDATE
UpdateBegin(header, id, body) ==
    LET auth == authenticateToken(header, now)
    IN  /\ Cardinality(flight) < MaxFlight
        /\ auth.ok
        /\ ~(Falsy(id) \/ JsIsNaN(id))
        /\ ~MissingRequired(body)
        /\ flight' = flight \cup {InFlight("Update", "", header, auth.user, id, body, FALSE, NoBody)}
        /\ UNCHANGED <<users, nextUserId, jobs, nextJobId, now, token, resp, hits, ui, calls>>

\* the store runs the UPDATE of request r
UpdateCommit(r) ==
    LET h == Committed(jobs, r, now)
    IN  /\ r.op = "Update"
        /\ ~r.done
        /\ jobs' = h.jobs
        /\ flight' = (flight \ {r})
                        \cup {InFlight("Update", "", r.header, r.user, r.id, r.input, TRUE, h.res)}
        /\ UNCHANGED <<users, nextUserId, nextJobId, now, token, resp, hits, ui, calls>>

\* the answer of request r goes out
UpdateEnd(r) ==
    /\ r.op = "Update"
    /\ r.done
    /\ flight' = flight \ {r}
    /\ resp' = Served("Update", r.header, Ok(r.user), r.id, r.input, r.res)
    /\ UNCHANGED <<users, nextUserId, jobs, nextJobId, now, token, hits, ui, calls>>

\* register awaits the store three times: the SELECT of the existence check,
\* bcrypt.hash, and the INSERT.  Another request may run between the SELECT
\* and the INSERT.

\* the INSERT of register on the users table `us`: UNIQUE on username and on
\* email makes the statement throw when either is taken, and the catch block
\* of the handler answers 500; the SERIAL id is spent either way
Inserted(us, id, body, t) ==
    IF {u \in us : u.email = body.email \/ u.username = body.username} # {}
    THEN [res |-> InternalError, users |-> us]
    ELSE LET newUser == NewUser(id, body, t)
             tok == JwtSign(newUser.id, newUser.username, JWT_SECRET, t)
         IN  [res |-> Reply(201, [message |-> "User created successfully",
                                  token |-> tok, user |-> PublicUser(newUser)]),
              users |-> us \cup {newUser}]

\* authLimiter counts the request, the handler passes its validation, the
\* SELECT finds no row, and the handler goes on to hash the password
RegisterBegin(c, body) ==
    /\ Cardinality(flight) < MaxFlight
    /\ hits[c] < MaxHits
    /\ authLimiter(hits[c]).ok
    /\ ~(Falsy(body.username) \/ Falsy(body.email) \/ Falsy(body.password))
    /\ Len(body.password) >= MinPasswordLen
    /\ ExistingUser(body.email, body.username) = {}
    /\ hits' = [hits EXCEPT ![c] = hits[c] + 1]
    /\ flight' = flight \cup {InFlight("Register", c, NoHeader, NoToken, "", body, FALSE, NoBody)}
    /\ UNCHANGED <<users, nextUserId, jobs, nextJobId, now, token, resp, ui, calls>>

\* the store runs the INSERT of request r
RegisterCommit(r) ==
    LET h == Inserted(users, nextUserId, r.input, now)
    IN  /\ r.op = "Register"
        /\ ~r.done
        /\ nextUserId <= MaxUsers
        /\ users' = h.users
        /\ nextUserId' = nextUserId + 1
        /\ flight' = (flight \ {r})
                        \cup {InFlight("Register", r.client, r.header, r.user, r.id, r.input,
                                       TRUE, h.res)}
        /\ UNCHANGED <<jobs, nextJobId, now, token, resp, hits, ui, calls>>

\* the answer of request r goes out, authLimiter takes a successful request
\* off its count, and handleAuth keeps the token of a 201
RegisterEnd(r) ==
    /\ r.op = "Register"
    /\ r.done
    /\ flight' = flight \ {r}
    /\ resp' = Served("Register", r.header, Open, r.id, r.input, r.res)
    /\ Keep(r.client, r.res, IF r.res.status = 201 THEN r.res.body.token ELSE NoToken)
    /\ hits' = [hits EXCEPT ![r.client] =
                    IF r.res.status < 400 /\ @ > 0 THEN @ - 1 ELSE @]
    /\ UNCHANGED <<users, nextUserId, jobs, nextJobId, now, calls>>

\* an administrator deletes a user row: user_id ... ON DELETE CASCADE
AdminDeleteUserNoCascade(u) ==
    /\ users' = users \ {u}
    /\ UNCHANGED <<jobs, nextUserId, nextJobId, now, token, resp, hits, flight, ui, calls>>

AdminDeleteUser(u) ==
    /\ users' = users \ {u}
    /\ jobs' = {j \in jobs : j.user_id # u.id}
    /\ UNCHANGED <<nextUserId, nextJobId, now, token, resp, hits, flight, ui, calls>>

\* the window of authLimiter ends (windowMs after it began): the counts start anew
WindowEnds ==
    /\ hits # NoHits
    /\ hits' = NoHits
    /\ UNCHANGED <<users, nextUserId, jobs, nextJobId, now, token, resp, flight, ui, calls>>

\* days pass, with no request in flight; the window of authLimiter has ended by then
Tick ==
    /\ now + TickDays <= MaxTime
    /\ flight = {}
    /\ now' = now + TickDays
    /\ hits' = NoHits
    /\ UNCHANGED <<users, nextUserId, jobs, nextJobId, token, resp, flight, ui, calls>>

\* The client.  A fetch is sent, served and received in three steps; the
\* component may handle other events in between.

\* the Authorization header of makeAuthenticatedRequest: `Bearer ${token}`
\* with the token of localStorage, the text "Bearer null" when there is none
makeAuthenticatedRequest(c) ==
    Bearer(IF token[c] = NoToken THEN Garbage ELSE token[c])

\* a fetch of client c that awaits its response
Call(c, kind, header, query, done, res) ==
    [client |-> c, kind |-> kind, header |-> header, query |-> query,
     done |-> done, res |-> res]

\* the query string fetchJobs builds from filters
QueryParams(filters) ==
    Query(IF filters.status = "" THEN ABSENT ELSE filters.status,
          IF filters.company = "" THEN ABSENT ELSE filters.company,
          filters.page, ToString(ClientLimit))

\* fetchJobs up to its await: nothing when there is no user
fetchJobs(c) ==
    IF ui[c].user = NoUser THEN {}
    ELSE {Call(c, "jobs", makeAuthenticatedRequest(c), QueryParams(ui[c].filters),
               FALSE, NoBody)}

\* fetchStats up to its await
fetchStats(c) ==
    IF ui[c].user = NoUser THEN {}
    ELSE {Call(c, "stats", makeAuthenticatedRequest(c), NoInput, FALSE, NoBody)}

\* a scheduled effect runs: useEffect [filters, user] calls fetchJobs when
\* there is a user, useEffect [currentView, user] calls fetchStats when the
\* view is 'stats' and there is a user
Effect(c, e) ==
    LET sent == IF e = "jobs" THEN fetchJobs(c)
                ELSE IF ui[c].view = "stats" THEN fetchStats(c) ELSE {}
    IN  /\ e \in ui[c].effects
        /\ sent \cap calls = {}
        /\ Cardinality(calls \cup sent) <= MaxCalls
        /\ calls' = calls \cup sent
        /\ ui' = [ui EXCEPT ![c].effects = @ \ {e}]
        /\ UNCHANGED <<users, nextUserId, jobs, nextJobId, now, token, resp, hits, flight>>

\* the buttons Job List and Statistics of a logged-in user: setCurrentView;
\* React runs the scheduled effects before it handles the next event
ShowView(c, v) ==
    /\ ui[c].user # NoUser
    /\ ui[c].effects = {}
    /\ ui[c].view # v
    /\ ui' = [ui EXCEPT ![c].view = v, ![c].effects = {"stats"}]
    /\ UNCHANGED <<users, nextUserId, jobs, nextJobId, now, token, resp, hits, flight, calls>>

\* handleLogout
handleLogout(c) ==
    /\ ui[c].user # NoUser
    /\ ui[c].effects = {}
    /\ token' = [token EXCEPT ![c] = NoToken]
    /\ ui' = [ui EXCEPT ![c].user = NoUser, ![c].jobs = <<>>, ![c].stats = NoStats,
                        ![c].view = "list", ![c].effects = Effects]
    /\ UNCHANGED <<users, nextUserId, jobs, nextJobId, now, resp, hits, flight, calls>>

\* the server answers the request of a fetch: GET /api/jobs or GET /api/stats
Serve(call) ==
    LET auth == authenticateToken(call.header, now)
        op == IF call.kind = "jobs" THEN "List" ELSE "Stats"
        answers == IF ~auth.ok THEN {NoBody}
                   ELSE IF call.kind = "jobs"
                   THEN ListResponses(jobs, auth.user, call.query)
                   ELSE {StatsHandler(jobs, auth.user)}
    IN  /\ ~call.done
        /\ \E res \in answers :
              resp' = Served(op, call.header, auth, "", call.query, res)
        /\ calls' = (calls \ {call})
                        \cup {Call(call.client, call.kind, call.header, call.query,
                                   TRUE, resp'.res)}
        /\ UNCHANGED <<users, nextUserId, jobs, nextJobId, now, token, hits, flight, ui>>

\* response.ok
ResponseOk(res) == res.status >= 200 /\ res.status <= 299

\* fetchJobs / fetchStats after the await: the response goes into the state
\* of the component when it is ok
Receive(call) ==
    LET c == call.client
    IN  /\ call.done
        /\ calls' = calls \ {call}
        /\ ui' = IF ~ResponseOk(call.res) THEN ui
                 ELSE IF call.kind = "jobs"
                 THEN [ui EXCEPT ![c].jobs = call.res.body.jobs,
                                 ![c].pagination = call.res.body.pagination]
                 ELSE [ui EXCEPT ![c].stats = call.res.body]
        /\ UNCHANGED <<users, nextUserId, jobs, nextJobId, now, token, resp, hits, flight>>

Next ==
    \/ \E c \in Clients, body \in RegisterBodies : Register(c, body)
    \/ \E c \in Clients, body \in LoginBodies : Login(c, body)
    \/ \E h \in Headers : Me(h)
    \/ \E h \in Headers, q \in Queries : List(h, q)
    \/ \E h \in Headers : Stats(h)
    \/ \E h \in Headers, id \in IdParams : Get(h, id)
    \/ \E h \in Headers, body \in JobBodies : Create(h, body)
    \/ \E h \in Headers, id \in IdParams, body \in JobBodies : Update(h, id, body)
    \/ \E h \in Headers, id \in IdParams : Delete(h, id)
    \/ \E h \in Headers, id \in IdParams, body \in JobBodies : UpdateBegin(h, id, body)
    \/ \E r \in flight : UpdateCommit(r)
    \/ \E r \in flight : UpdateEnd(r)
    \/ \E c \in Clients, body \in RegisterBodies : RegisterBegin(c, body)
    \/ \E r \in flight : RegisterCommit(r)
    \/ \E r \in flight : RegisterEnd(r)
    \/ \E u \in users : AdminDeleteUser(u)
    \/ \E c \in Clients, e \in Effects : Effect(c, e)
    \/ \E c \in Clients, v \in {"list", "stats"} : ShowView(c, v)
    \/ \E c \in Clients : handleLogout(c)
    \/ \E call \in calls : Serve(call)
    \/ \E call \in calls : Receive(call)
    \/ WindowEnds
    \/ Tick

\* the whole system
Spec == Init /\ [][Next]_vars

-----------------------------------------------------------------------------
(* Parts of the system.  Each takes its steps from Next with the inputs     *)
(* drawn from subsets of the sets above, so each of its behaviours is a     *)
(* behaviour of Spec.                                                       *)

\* two accounts that do not collide
Signups == {RegBody("alice", "a@x.io", "secret1"), RegBody("bob", "b@x.io", "secret1")}
Signins == {[email |-> e, password |-> "secret1"] : e \in Emails}

\* a sign-up nobody has made yet, a sign-in of a user that exists: the
\* requests of clients that stay within the budget of authLimiter
Fresh(body) == ExistingUser(body.email, body.username) = {}
Known(body) == \E u \in users : u.email = body.email

\* the header a client sends with the token it keeps
Kept == {makeAuthenticatedRequest(c) : c \in Clients}

\* the auth service: register, login, me, user removal, the clock
NextAuth ==
    \/ \E c \in Clients, body \in RegisterBodies : Register(c, body)
    \/ \E c \in Clients, body \in LoginBodies : Login(c, body)
    \/ \E h \in Headers : Me(h)
    \/ \E u \in users : AdminDeleteUser(u)
    \/ WindowEnds
    \/ Tick

SpecAuth == Init /\ [][NextAuth]_vars

\* the queries and the replacement bodies the two users send
SentQueries ==
    {Query(ABSENT, ABSENT, ABSENT, ABSENT), Query("applied", "ACME", ABSENT, ABSENT),
     Query(ABSENT, ABSENT, "2", "1"), Query(ABSENT, ABSENT, "1", "abc")}

SentUpdates ==
    {JobBody("Acme", "Engineer", ABSENT, ABSENT, ABSENT, ABSENT),
     JobBody("Globex", "Analyst", "interview", "day-1", "", "text"),
     JobBody("Initech", "Tester", NULL, "someday", ABSENT, NULL),
     JobBody("", "Engineer", "offer", "day-1", "day-2", "text")}

\* the job service as two signed-in users drive it
NextJobs ==
    \/ \E c \in Clients, body \in Signups : Fresh(body) /\ Register(c, body)
    \/ \E c \in Clients, body \in Signins : Known(body) /\ Login(c, body)
    \/ \E h \in Kept, q \in SentQueries : List(h, q)
    \/ \E h \in Kept : Stats(h)
    \/ \E h \in Kept, id \in IdParams : Get(h, id)
    \/ \E h \in Kept, body \in JobBodies : Create(h, body)
    \/ \E h \in Kept, id \in IdParams, body \in SentUpdates : Update(h, id, body)
    \/ \E h \in Kept, id \in IdParams : Delete(h, id)

SpecJobs == Init /\ [][NextJobs]_vars

\* the bodies of the records the users keep
SentCreates ==
    {JobBody("Acme", "Engineer", ABSENT, ABSENT, ABSENT, ABSENT),
     JobBody("Globex", "Analyst", "interview", "day-1", "day-2", "text")}

\* the replacement bodies one user sends: all optional fields left out, all
\* given (a blank date among them), the title missing
SentEdits ==
    {JobBody("Acme", "Engineer", ABSENT, ABSENT, ABSENT, ABSENT),
     JobBody("Initech", "Tester", "offer", "day-3", "", "memo"),
     JobBody("Acme", "", "offer", "day-3", "day-4", "memo")}

\* one user makes, replaces and removes records over the days
NextEdit ==
    \/ \E c \in Clients : users = {} /\ Register(c, RegBody("alice", "a@x.io", "secret1"))
    \/ \E h \in Kept, body \in SentCreates : Create(h, body)
    \/ \E h \in Kept : List(h, NoFilters)
    \/ \E h \in Kept : Stats(h)
    \/ \E h \in Kept, id \in IdParams : Get(h, id)
    \/ \E h \in Kept, id \in IdParams, body \in SentEdits : Update(h, id, body)
    \/ \E h \in Kept, id \in IdParams : Delete(h, id)
    \/ Tick

SpecEdit == Init /\ [][NextEdit]_vars

\* the records two users keep, and the pages and filters they ask for
ListedCreates ==
    SentCreates \cup {JobBody("acme labs", "Engineer", "archived", "", "day-2", "")}

SentLists ==
    Queries
        \cup {Query(ABSENT, ABSENT, p, "2") : p \in {"1", "2"}}
        \cup {Query("interview", "globex", ABSENT, ABSENT),
              Query("applied", "globex", "1", "1"),
              Query(ABSENT, "a_me", ABSENT, ABSENT)}

\* the list service
NextList ==
    \/ \E c \in Clients, body \in Signups : Fresh(body) /\ Register(c, body)
    \/ \E c \in Clients, body \in Signins : Known(body) /\ Login(c, body)
    \/ \E h \in Kept, body \in ListedCreates : Create(h, body)
    \/ \E h \in Kept, q \in SentLists : List(h, q)

SpecList == Init /\ [][NextList]_vars

\* the replacement bodies that overlap: they differ in every field
RacingEdits ==
    {JobBody("Initech", "Tester", "offer", "day-3", "", "memo"),
     JobBody("Hooli", "Manager", "rejected", "", "day-5", "note"),
     JobBody("Acme", "Engineer", ABSENT, ABSENT, ABSENT, ABSENT)}

\* the ids of the records in the table
Present == {ToString(j.id) : j \in jobs}

\* one user's replacements of a record that exists overlap in time, two at a
\* time
NextRace ==
    \/ \E c \in Clients : users = {} /\ Register(c, RegBody("alice", "a@x.io", "secret1"))
    \/ \E h \in Kept : Create(h, JobBody("Globex", "Analyst", "interview", "day-1", "day-2", "text"))
    \/ \E h \in Kept, id \in Present, body \in RacingEdits :
          Cardinality(flight) < 2 /\ UpdateBegin(h, id, body)
    \/ \E r \in flight : UpdateCommit(r)
    \/ \E r \in flight : UpdateEnd(r)
    \/ Tick

SpecRace == Init /\ [][NextRace]_vars

\* requests that are refused: by the token gate, for their id, for their
\* body, for a record that is not there or is another user's
RefusedIds == {"1", "2", "abc"}
RefusedBodies ==
    {JobBody("Globex", "Analyst", "interview", "day-1", "", "text"),
     JobBody("", "Engineer", "offer", "day-1", "day-2", "text")}

NextRefuse ==
    \/ \E c \in Clients, body \in Signups : Fresh(body) /\ Register(c, body)
    \/ \E c \in Clients, body \in Signins : Known(body) /\ Login(c, body)
    \/ \E h \in Headers, body \in RefusedBodies : Create(h, body)
    \/ \E h \in Headers, id \in RefusedIds, body \in RefusedBodies : Update(h, id, body)
    \/ \E h \in Headers, id \in RefusedIds : Delete(h, id)

SpecRefuse == Init /\ [][NextRefuse]_vars

\* users come and go while their clients keep the tokens they were given
NextOwn ==
    \/ \E c \in Clients, body \in Signups : Fresh(body) /\ Register(c, body)
    \/ \E c \in Clients, body \in Signins : Known(body) /\ Login(c, body)
    \/ \E h \in Kept, body \in SentCreates : Create(h, body)
    \/ \E h \in Kept, id \in IdParams, body \in SentEdits : Update(h, id, body)
    \/ \E h \in Kept, id \in IdParams : Delete(h, id)
    \/ \E u \in users : AdminDeleteUser(u)

SpecOwn == Init /\ [][NextOwn]_vars

\* sign-ups that share an email or a username, sent while others are under way
RacingSignups == {RegBody(u, e, "secret1") : u \in Usernames, e \in Emails}

NextJoin ==
    \/ \E c \in Clients, body \in RacingSignups : Register(c, body)
    \/ \E c \in Clients, body \in RacingSignups : RegisterBegin(c, body)
    \/ \E r \in flight : RegisterCommit(r)
    \/ \E r \in flight : RegisterEnd(r)

SpecJoin == Init /\ [][NextJoin]_vars

\* the token gate in front of every protected route, one request per route
GateBody == JobBody("Globex", "Analyst", "interview", "day-1", "", "text")
GateQuery == Query(ABSENT, ABSENT, ABSENT, ABSENT)

\* one request to a protected route with header h
GateRequest(h) ==
    \/ Me(h)
    \/ List(h, GateQuery)
    \/ Stats(h)
    \/ Get(h, "1")
    \/ Create(h, GateBody)
    \/ Update(h, "1", GateBody)
    \/ Delete(h, "1")

NextGate ==
    \/ \E c \in Clients : users = {} /\ Register(c, RegBody("alice", "a@x.io", "secret1"))
    \/ \E c \in Clients : users # {} /\ Login(c, [email |-> "a@x.io", password |-> "secret1"])
    \/ \E h \in Headers : GateRequest(h)
    \/ Tick

SpecGate == Init /\ [][NextGate]_vars

\* one browser: users log in and out of it while its fetches are under way,
\* and their records come into the store
NextClient ==
    \/ \E c \in Clients, body \in Signups :
          ui[c].user = NoUser /\ Fresh(body) /\ Register(c, body)
    \/ \E c \in Clients, body \in Signins :
          ui[c].user = NoUser /\ Known(body) /\ Login(c, body)
    \/ \E h \in Kept : Create(h, GateBody)
    \/ \E c \in Clients, e \in Effects : Effect(c, e)
    \/ \E c \in Clients, v \in {"list", "stats"} : ShowView(c, v)
    \/ \E c \in Clients : handleLogout(c)
    \/ \E call \in calls : Serve(call)
    \/ \E call \in calls : Receive(call)

SpecClient == Init /\ [][NextClient]_vars

-----------------------------------------------------------------------------
(* Properties *)

\* the claims of a verified token of user u
Payload(u) == JwtSign(u.id, u.username, JWT_SECRET, now)

\* the user the last request was served for
Caller == resp.header.token

\* the last request passed the token gate and reached its handler
Reached(op) == resp.op = op /\ resp.res.status \notin {401, 403}

NotFound == Fail(404, "Job application not found")

\* a body the job handlers take: company and title given, dates readable
Acceptable(body) ==
    /\ body.company_name \notin {ABSENT, NULL, ""}
    /\ body.job_title \notin {ABSENT, NULL, ""}
    /\ \A d \in {body.application_date, body.follow_up_date} :
            d \in {ABSENT, NULL, ""} \/ IsDateText(d)

\* C1: for users A # B and a record of A, a Get, Update or Delete by B with
\* that record's id is answered 404 Not Found, exactly as for an id that was
\* never given to a record, and leaves the table as it is.
C1_CrossUserNotFound ==
    /\ \A j \in jobs, b \in users :
          b.id # j.user_id =>
            LET B == Payload(b)
                id == ToString(j.id)
                unused == ToString(nextJobId)
            IN  /\ GetHandler(jobs, B, id) = NotFound
                /\ GetHandler(jobs, B, unused) = NotFound
                /\ DeleteHandler(jobs, B, id) = [res |-> NotFound, jobs |-> jobs]
                /\ DeleteHandler(jobs, B, unused) = [res |-> NotFound, jobs |-> jobs]
                /\ \A body \in JobBodies :
                      /\ UpdateHandler(jobs, B, id, body, now)
                            = UpdateHandler(jobs, B, unused, body, now)
                      /\ UpdateHandler(jobs, B, id, body, now).jobs = jobs
                      /\ Acceptable(body) =>
                            UpdateHandler(jobs, B, id, body, now).res = NotFound
    /\ (/\ resp.op \in {"Get", "Update", "Delete"}
        /\ resp.res.status \notin {401, 403}
        /\ IsIntegerText(resp.id)
        /\ \E j \in jobs : j.id = IntValue(resp.id) /\ j.user_id # Caller.userId
        /\ resp.op = "Update" => Acceptable(resp.input))
       => resp.res = NotFound

\* B's Update of a record that exists and belongs to A was answered 404
C1_Witness ==
    /\ Reached("Update")
    /\ resp.res = NotFound
    /\ \E j \in jobs : ToString(j.id) = resp.id /\ j.user_id # Caller.userId
    /\ \E b \in users : b.id = Caller.userId

\* C2: what List and Stats answer to user A is a function of A's own rows:
\* on the table and on the table with every other user's rows removed they
\* answer the same, for every query (so two tables that agree on A's rows get
\* A the same answers, whatever else they hold).
C2_OwnRowsOnly ==
    /\ \A a \in users :
          LET A == Payload(a)
              own == {j \in jobs : j.user_id = a.id}
          IN  /\ StatsHandler(jobs, A) = StatsHandler(own, A)
              /\ \A q \in Queries : ListResponses(jobs, A, q) = ListResponses(own, A, q)
    /\ Reached("List") =>
          resp.res \in ListResponses({j \in jobs : j.user_id = Caller.userId},
                                     Caller, resp.input)
    /\ Reached("Stats") =>
          resp.res = StatsHandler({j \in jobs : j.user_id = Caller.userId}, Caller)

\* a user got rows from List while the table also held another user's rows
C2_Witness ==
    /\ Reached("List")
    /\ resp.res.status = 200
    /\ Len(resp.res.body.jobs) > 0
    /\ \E j \in jobs : j.user_id # Caller.userId

\* a registration the handler validates: the three fields given, the
\* password of six characters or more
WellFormedSignup(body) ==
    /\ body.username \notin {ABSENT, NULL, ""}
    /\ body.email \notin {ABSENT, NULL, ""}
    /\ body.password \notin {ABSENT, NULL, ""}
    /\ Len(body.password) >= 6

\* the body repeats the email of a user under another username, or the
\* username of a user under another email
TakenByOther(body) ==
    \E u \in users :
        \/ u.email = body.email /\ u.username # body.username
        \/ u.username = body.username /\ u.email # body.email

\* C3: a well-formed Register whose email is the email of an existing user
\* (under a different username), or whose username is the username of an
\* existing user (under a different email), is answered 409 Conflict, adds no
\* user and issues no token.
C3_DuplicateConflict ==
    [][\A c \in Clients, body \in RegisterBodies :
          (/\ Register(c, body)
           /\ hits[c] < AuthLimit
           /\ WellFormedSignup(body) /\ TakenByOther(body))
            => /\ resp'.res.status = 409
               /\ resp'.res.body = NoBody
               /\ users' = users
               /\ nextUserId' = nextUserId
               /\ token' = token
               /\ hits'[c] = hits[c] + 1]_vars

\* a Register with a user's email and another username was answered 409
C3_Witness ==
    /\ resp.op = "Register"
    /\ resp.res.status = 409
    /\ \E u \in users : u.email = resp.input.email /\ u.username # resp.input.username

\* C4: after every successful Register(username, email, password) the token
\* in the response verifies, and CurrentUser of the userId it carries is the
\* user with the submitted username and email.
C4_TokenResolves ==
    [][\A c \in Clients, body \in RegisterBodies :
          (Register(c, body) /\ resp'.res.status = 201)
            => LET auth == authenticateToken(Bearer(resp'.res.body.token), now')
                   me == MeHandler(users', auth.user)
               IN  /\ auth.ok
                   /\ me.status = 200
                   /\ me.body.user.id = auth.user.userId
                   /\ me.body.user.username = body.username
                   /\ me.body.user.email = body.email]_vars

\* a second user registered, on a later day than the first
C4_Witness ==
    /\ resp.op = "Register"
    /\ resp.res.status = 201
    /\ resp.res.body.user.id > 1
    /\ resp.res.body.token.iat > 0

\* a login that names its email and its password
WellFormedLogin(body) ==
    body.email \notin {ABSENT, NULL, ""} /\ body.password \notin {ABSENT, NULL, ""}

\* C5: a Login with a registered email and a wrong password is answered with
\* the same status (401) and the same error message as a Login with an email
\* no user has.
C5_SameRefusal ==
    \A known, unknown \in {b \in LoginBodies : WellFormedLogin(b)} :
        (/\ \E u \in users : /\ u.email = known.email
                             /\ u.password_hash # BcryptHash(known.password)
         /\ ~\E u \in users : u.email = unknown.email)
        => /\ LoginHandler(known).res = LoginHandler(unknown).res
           /\ LoginHandler(known).res.status = 401
           /\ LoginHandler(known).issued = NoToken

\* a Login with a registered email and a wrong password was refused
C5_Witness ==
    /\ resp.op = "Login"
    /\ resp.res.status = 401
    /\ \E u \in users : /\ u.email = resp.input.email
                        /\ u.password_hash # BcryptHash(resp.input.password)

\* the request carries no token: no Authorization header, or one without a
\* token part
NoTokenSent(h) == ~h.set \/ h.token = NoToken

\* the token is no JWT, is signed with another key, or was issued more than
\* seven days before t
BadToken(tok, t) ==
    \/ tok.kind = "garbage"
    \/ tok.kind = "jwt" /\ tok.sig # JWT_SECRET
    \/ tok.kind = "jwt" /\ t - tok.iat > TokenTTL

\* C6: on every protected route a request without a token is answered 401
\* and a request whose token is malformed, expired or wrongly signed is
\* answered 403; either way the answer is the gate's own (no handler output)
\* and users, jobs and both id sequences stay as they are.
C6_TokenGate ==
    [][\A h \in Headers :
          GateRequest(h) =>
            /\ NoTokenSent(h) =>
                  /\ resp'.res = Fail(401, "Access token required")
                  /\ UNCHANGED <<users, nextUserId, jobs, nextJobId, token>>
            /\ (~NoTokenSent(h) /\ BadToken(h.token, now)) =>
                  /\ resp'.res = Fail(403, "Invalid or expired token")
                  /\ UNCHANGED <<users, nextUserId, jobs, nextJobId, token>>]_vars

\* a Create with a token the server issued more than seven days earlier was
\* answered 403 while the table held a row
C6_Witness ==
    /\ resp.op = "Create"
    /\ resp.res.status = 403
    /\ resp.header.token.kind = "jwt"
    /\ resp.header.token.sig = JWT_SECRET
    /\ now - resp.header.token.iat > TokenTTL
    /\ jobs # {}

\* missing or empty
Blank(v) == v \in {ABSENT, ""}

\* C7: a Create (by a signed-in user) whose company name or job title is
\* missing or empty is answered 400, whatever the other fields are, and adds
\* no row and spends no id.
C7_RequiredFields ==
    [][\A h \in Kept, body \in JobBodies :
          (/\ Create(h, body)
           /\ resp'.res.status \notin {401, 403}
           /\ Blank(body.company_name) \/ Blank(body.job_title))
          => /\ resp'.res.status = 400
             /\ resp'.res.body = NoBody
             /\ jobs' = jobs
             /\ nextJobId' = nextJobId]_vars

\* a Create with an empty company name was answered 400 while the caller
\* already had a row
C7_Witness ==
    /\ Reached("Create")
    /\ resp.res.status = 400
    /\ resp.input.company_name = ""
    /\ \E j \in jobs : j.user_id = Caller.userId

\* C8: a record created without an application date has the creation date
\* (today) as its application date.
C8_DefaultDateToday ==
    (/\ Reached("Create")
     /\ resp.res.status = 201
     /\ resp.input.application_date = ABSENT)
    => resp.res.body.application_date = Today(resp.res.body.created_at)

\* C9: a record created with the status field omitted is stored, and
\* returned, with status "applied".
C9_DefaultStatus ==
    /\ \A u \in users, body \in JobBodies :
          (body.status = ABSENT /\ Acceptable(body)) =>
            LET r == CreateHandler(jobs, nextJobId, Payload(u), body, now)
            IN  /\ r.res.status = 201
                /\ r.res.body.status = "applied"
                /\ r.res.body \in r.jobs
    /\ (/\ Reached("Create")
        /\ resp.res.status = 201
        /\ resp.input.status = ABSENT)
       => /\ resp.res.body.status = "applied"
          /\ resp.res.body \in jobs

\* a Create that named no status was answered 201
C9_Witness ==
    /\ Reached("Create")
    /\ resp.res.status = 201
    /\ resp.input.status = ABSENT

\* C10: the status of every stored job record is one of applied, interview,
\* offer, rejected, withdrawn.
C10_StatusEnumerated == \A j \in jobs : j.status \in Statuses

\* C11: for every user, in every reachable state of the table, the Stats
\* counts applied + interview + offer + rejected + withdrawn add up to the
\* Stats total, and the Stats total is the pagination total of List without
\* filters.
C11_StatsSumTotal ==
    \A u \in users :
        LET s == StatsHandler(jobs, Payload(u)).body
        IN  /\ s.applied + s.interview + s.offer + s.rejected + s.withdrawn = s.total
            /\ \A l \in ListResponses(jobs, Payload(u), NoFilters) :
                  l.body.pagination.total = s.total

\* the editable columns of a job record
TextFields ==
    {"company_name", "job_title", "job_url", "location", "salary_range", "status",
     "description", "requirements", "notes", "contact_person", "contact_email"}
DateFields == {"application_date", "follow_up_date"}

\* what a full replace leaves in a column: the submitted value, and null where
\* none was submitted (for a date: where none or a blank one was submitted)
Cleared(v) == IF v = ABSENT THEN NULL ELSE v
ClearedDate(v) == IF v \in {ABSENT, NULL, ""} THEN NULL ELSE v

\* C12: a successful Update replaces the whole record: every editable field
\* of the stored (and returned) record is the submitted value, a field not
\* submitted is cleared, updated_at is the time of the update (not earlier
\* than before), id, owning user and created_at stay, and so does every other
\* record.
C12_FullReplace ==
    [][\A h \in Kept, id \in IdParams, body \in SentEdits :
          (Update(h, id, body) /\ resp'.res.status = 200)
            => \E old \in jobs :
                  LET new == resp'.res.body
                  IN  /\ ToString(old.id) = id
                      /\ old.user_id = h.token.userId
                      /\ \A f \in TextFields : new[f] = Cleared(body[f])
                      /\ \A f \in DateFields : new[f] = ClearedDate(body[f])
                      /\ new.updated_at = now
                      /\ new.updated_at >= old.updated_at
                      /\ new.id = old.id
                      /\ new.user_id = old.user_id
                      /\ new.created_at = old.created_at
                      /\ jobs' = (jobs \ {old}) \cup {new}
                      /\ new \notin jobs \ {old}]_vars

\* an Update on a later day than the record was made, naming no status, was
\* answered 200 with the status cleared, while the table held another record
C12_Witness ==
    /\ Reached("Update")
    /\ resp.res.status = 200
    /\ resp.res.body.updated_at > resp.res.body.created_at
    /\ resp.input.status = ABSENT
    /\ resp.res.body.status = NULL
    /\ resp.res.body \in jobs
    /\ Cardinality(jobs) > 1

\* the last request was a Delete that removed the record with id n
Deleted(n) ==
    /\ Reached("Delete")
    /\ resp.res.status = 200
    /\ resp.res.body.deleted.id = n

\* no request finds the record with id n: a Get, an Update or a Delete of n is
\* answered 404 (an Update with an unusable body 400) for every user, and no
\* List and no Stats counts or shows a record with that id
Gone(n) ==
    /\ \A u \in users :
          LET U == Payload(u)
              id == ToString(n)
              rest == {j \in jobs : j.id # n}
          IN  /\ GetHandler(jobs, U, id) = NotFound
              /\ DeleteHandler(jobs, U, id) = [res |-> NotFound, jobs |-> jobs]
              /\ \A body \in SentEdits :
                    /\ UpdateHandler(jobs, U, id, body, now).res.status \in {400, 404}
                    /\ Acceptable(body) => UpdateHandler(jobs, U, id, body, now).res = NotFound
              /\ StatsHandler(jobs, U) = StatsHandler(rest, U)
              /\ \A q \in SentQueries : \A l \in ListResponses(jobs, U, q) :
                    l.status = 200 =>
                        \A i \in 1..Len(l.body.jobs) : l.body.jobs[i].id # n
    /\ (Reached("Get") /\ resp.id = ToString(n)) => resp.res = NotFound
    /\ (Reached("Update") /\ resp.id = ToString(n)) => resp.res.status \in {400, 404}
    /\ (Reached("Delete") /\ resp.id = ToString(n)) => (resp.res = NotFound \/ Deleted(n))
    /\ (Reached("List") /\ resp.res.status = 200) =>
          \A i \in 1..Len(resp.res.body.jobs) : resp.res.body.jobs[i].id # n

\* C13: a Delete by the owner removes exactly that record and returns it, and
\* from then on every Get, Update or Delete of that id is answered 404 and no
\* List or Stats result holds the record.
C13_DeletedStaysGone ==
    /\ [][\A h \in Kept, id \in IdParams :
            (Delete(h, id) /\ resp'.res.status = 200)
              => \E old \in jobs :
                    /\ ToString(old.id) = id
                    /\ old.user_id = h.token.userId
                    /\ resp'.res.body.deleted = old
                    /\ jobs' = jobs \ {old}]_vars
    /\ \A n \in 1..MaxJobs : [](Deleted(n) => []Gone(n))

\* after a Delete of record 1 the owner asked for it again and got 404, while
\* the owner's other record was still there
C13_Witness ==
    /\ Reached("Get")
    /\ resp.id = "1"
    /\ resp.res = NotFound
    /\ nextJobId > 2
    /\ \E j \in jobs : j.id = 2 /\ j.user_id = Caller.userId

\* the text of a positive integer
PositiveText(s) == IsIntegerText(s) /\ IntValue(s) > 0

\* the least number of pages of l records that hold n records
Pages(n, l) == CHOOSE k \in 0..n : k * l >= n /\ \A m \in 0..(k - 1) : m * l < n

\* the records of user u that the filters of query q select
Selected(u, q) ==
    {j \in jobs :
        /\ j.user_id = u
        /\ (q.status \notin {ABSENT, ""} => j.status = q.status)
        /\ (q.company \notin {ABSENT, ""} => ILike(j.company_name, "%" \o q.company \o "%"))}

\* what C14 asks of the answer res to query q of user u
PagedRight(u, q, res) ==
    LET n == Cardinality(Selected(u, q))
        l == IF q.limit = ABSENT THEN DefaultLimit ELSE IntValue(q.limit)
        p == IF q.page = ABSENT THEN DefaultPage ELSE IntValue(q.page)
    IN  /\ res.status = 200
        /\ res.body.pagination.totalPages = Num(Pages(n, l))
        /\ p > Pages(n, l) =>
              /\ res.body.jobs = <<>>
              /\ res.body.pagination =
                    [page |-> Num(p), limit |-> Num(l), total |-> n,
                     totalPages |-> Num(Pages(n, l))]

\* page and limit are left out or the text of a positive integer
Paged(q) ==
    /\ q.page = ABSENT \/ PositiveText(q.page)
    /\ q.limit = ABSENT \/ PositiveText(q.limit)

\* C14: for a user with N matching records and a positive integer limit L,
\* List answers totalPages = ceil(N / L); for a page beyond totalPages it
\* answers 200 with no jobs and the pagination {page, limit, total, totalPages}.
C14_TotalPages ==
    /\ \A u \in users, q \in SentLists :
          Paged(q) => \A res \in ListResponses(jobs, Payload(u), q) :
                          PagedRight(u.id, q, res)
    /\ (Reached("List") /\ Paged(resp.input)) =>
          PagedRight(Caller.userId, resp.input, resp.res)

\* a user with two records asked for page 3 at one record a page and got no
\* jobs and totalPages 2
C14_Witness ==
    /\ Reached("List")
    /\ resp.input.page = "3"
    /\ resp.input.limit = "1"
    /\ resp.res.status = 200
    /\ resp.res.body.jobs = <<>>
    /\ resp.res.body.pagination.total = 2
    /\ resp.res.body.pagination.totalPages = Num(2)

\* a JS number that is a positive integer
PositiveNumber(x) == x # NaN /\ \A n \in x : n > 0

\* C15: List sanitizes page and limit: whatever page and limit the caller
\* sends (zero, negative or non-numeric text included), the request is not
\* answered with an internal error and pagination.page and pagination.limit
\* of the answer are positive integers.
C15_PageLimitSanitized ==
    Reached("List") =>
        /\ resp.res.status = 200
        /\ PositiveNumber(resp.res.body.pagination.page)
        /\ PositiveNumber(resp.res.body.pagination.limit)

\* s holds sub, letter case set aside
Contains(s, sub) ==
    \E i \in 1..(Len(s) + 1) :
        /\ i + Len(sub) - 1 <= Len(s)
        /\ ToLower(SubSeq(s, i, i + Len(sub) - 1)) = ToLower(sub)

\* the records of user u with the status and the company that query q names
Filtered(u, q) ==
    {j \in jobs :
        /\ j.user_id = u
        /\ (q.status \notin {ABSENT, ""} => j.status = q.status)
        /\ (q.company \notin {ABSENT, ""} => Contains(j.company_name, q.company))}

\* C16: whatever status and company filters are given or left out, List
\* returns only records of the caller whose status is the status filter and
\* whose company name contains the company filter, letter case set aside, and
\* pagination.total is the number of all such records whatever page and limit
\* are.
C16_FiltersExact ==
    (Reached("List") /\ resp.res.status = 200) =>
        /\ \A i \in 1..Len(resp.res.body.jobs) :
              resp.res.body.jobs[i] \in Filtered(Caller.userId, resp.input)
        /\ resp.res.body.pagination.total
              = Cardinality(Filtered(Caller.userId, resp.input))

\* the thirteen editable columns of row j
ColumnsOf(j) == [f \in TextFields \cup DateFields |-> j[f]]

\* the complete field set request r submits
Submitted(r) ==
    [f \in TextFields \cup DateFields |->
        IF f \in DateFields THEN ClearedDate(r.input[f]) ELSE Cleared(r.input[f])]

\* two requests in flight that aim at the same record and have both been run
BothRun(a, b) ==
    /\ a \in flight /\ b \in flight
    /\ a # b
    /\ a.id = b.id /\ a.user = b.user
    /\ a.done /\ b.done

\* C17: two Updates of the owner on the same record that overlap in time
\* resolve as last writer wins on the full record: both are answered 200, each
\* UPDATE leaves the record with the complete field set of its own request,
\* and the stored record carries the complete field set of one of the two,
\* never fields of both.
C17_LastWriterWins ==
    /\ [][\A r \in flight :
            (UpdateCommit(r)
             /\ \E j \in jobs : ToString(j.id) = r.id /\ j.user_id = r.user.userId)
              => \E j \in jobs' :
                    /\ ToString(j.id) = r.id
                    /\ ColumnsOf(j) = Submitted(r)
                    /\ \E d \in flight' : d.done /\ d.input = r.input /\ d.res = Reply(200, j)]_vars
    /\ [](\A a, b \in flight :
            BothRun(a, b)
              => /\ a.res.status = 200
                 /\ b.res.status = 200
                 /\ \E j \in jobs :
                       /\ ToString(j.id) = a.id
                       /\ ColumnsOf(j) \in {Submitted(a), Submitted(b)}
                       /\ j \in {a.res.body, b.res.body})

\* two Updates of record 1 with different bodies were both in flight, both
\* have been run and answered 200
C17_Witness ==
    \E a, b \in flight :
        /\ BothRun(a, b)
        /\ a.id = "1"
        /\ a.input # b.input
        /\ a.res.status = 200 /\ b.res.status = 200
        /\ \E j \in jobs : j.id = 1 /\ ColumnsOf(j) = Submitted(b) /\ ColumnsOf(j) # Submitted(a)

\* the users that own record j
Owners(j) == {u \in users : u.id = j.user_id}

\* C18: in every reachable state every job record is owned by exactly one
\* existing user; the deletion of a user removes all records of that user
\* (and no other), and a Create sent afterwards with that user's token, still
\* valid, adds no record.
C18_OwnedByExistingUser ==
    /\ [](\A j \in jobs : Cardinality(Owners(j)) = 1)
    /\ [][\A u \in users :
            AdminDeleteUser(u) => jobs' = {j \in jobs : j.user_id # u.id}]_vars
    /\ [][\A h \in Kept, body \in SentCreates :
            (/\ Create(h, body)
             /\ JwtValid(h.token, now)
             /\ ~\E u \in users : u.id = h.token.userId)
              => jobs' = jobs /\ resp'.res.status >= 400]_vars

\* a Create with the valid token of a user that was deleted was refused,
\* while another user's record was in the table
C18_Witness ==
    /\ Reached("Create")
    /\ resp.res.status >= 400
    /\ Acceptable(resp.input)
    /\ JwtValid(Caller, now)
    /\ ~\E u \in users : u.id = Caller.userId
    /\ jobs # {}

\* what C19 asks of one register / login request of client c that the
\* handler would answer with `res`: turned away with 429 before the handler
\* once the client's count of the window has reached the limit, handled
\* otherwise, and counted only when its answer is not a success
Budgeted(c, res) ==
    /\ hits[c] >= AuthLimit =>
          /\ resp'.res.status = 429
          /\ resp'.res.body = NoBody
          /\ UNCHANGED <<users, nextUserId, token>>
    /\ hits[c] < AuthLimit => resp'.res = res
    /\ hits'[c] = IF resp'.res.status < 400 THEN hits[c] ELSE hits[c] + 1

\* C19: register and login share a limit stricter than that of general
\* traffic: once a client has made 5 unsuccessful register / login requests in
\* a window, its further register / login requests in that window are
\* rejected before they reach the handler; successful requests are not
\* counted; when the window ends the client has its whole budget again.
C19_AuthBudget ==
    /\ [](AuthLimit < GeneralLimit)
    /\ [][\A c \in Clients, body \in RegisterBodies :
            Register(c, body) => Budgeted(c, RegisterHandler(body).res)]_vars
    /\ [][\A c \in Clients, body \in LoginBodies :
            Login(c, body) => Budgeted(c, LoginHandler(body).res)]_vars
    /\ [][(WindowEnds \/ Tick) => \A c \in Clients : hits'[c] = 0]_vars

\* a sixth request of a client after five unsuccessful ones was turned away,
\* though a user exists that could have signed in
C19_Witness ==
    /\ resp.op \in {"Register", "Login"}
    /\ resp.res.status = 429
    /\ \E c \in Clients : hits[c] = AuthLimit + 1
    /\ users # {}

\* C20: Get, Update and Delete answer 400 for every id path value that is
\* not a record identifier (text that is no number, and the text of a number
\* that is not an integer), never an internal error.
C20_BadIdRejected ==
    (/\ resp.op \in {"Get", "Update", "Delete"}
     /\ resp.res.status \notin {401, 403}
     /\ ~IsIntegerText(resp.id))
    => resp.res.status = 400

\* no date submitted: the key left out, or an empty string
BlankDate(v) == v \in {ABSENT, ""}

\* row `row`, stored for body `body`, has null where the body's date is blank
NullForBlank(body, row) ==
    \A f \in DateFields : BlankDate(body[f]) => row[f] = NULL

Refused == resp'.res.status >= 400

\* id names a record of a user other than the one token tok speaks for
AnothersRecord(tok, id) ==
    \E j \in jobs : ToString(j.id) = id /\ j.user_id # tok.userId

\* C22: every Create, Update or Delete that is answered with an error (400,
\* 401, 403, 404) leaves the whole job table as it is; in particular an Update
\* or Delete aimed at another user's record is answered 404 (400 for an
\* unusable body) and changes nothing.
C22_ErrorsChangeNothing ==
    /\ [][\A h \in Headers, body \in RefusedBodies :
            (Create(h, body) /\ Refused) => jobs' = jobs]_vars
    /\ [][\A h \in Headers, id \in RefusedIds, body \in RefusedBodies :
            /\ (Update(h, id, body) /\ Refused) => jobs' = jobs
            /\ (Update(h, id, body) /\ AnothersRecord(h.token, id))
                  => Refused /\ jobs' = jobs]_vars
    /\ [][\A h \in Headers, id \in RefusedIds :
            /\ (Delete(h, id) /\ Refused) => jobs' = jobs
            /\ (Delete(h, id) /\ AnothersRecord(h.token, id))
                  => Refused /\ jobs' = jobs]_vars

\* a Delete by a signed-in user of another user's record was answered 404 and
\* the record is still there
C22_Witness ==
    /\ Reached("Delete")
    /\ resp.res.status = 404
    /\ JwtValid(Caller, now)
    /\ \E j \in jobs : ToString(j.id) = resp.id /\ j.user_id # Caller.userId

\* two sign-ups that name the same email or the same username
Alike(a, b) == a.email = b.email \/ a.username = b.username

\* C23: with the existence check and the insert of Register as separate
\* steps, no state holds two users with the same email or the same username,
\* and a Register whose insert came after that of another Register with the
\* same email or username is answered 409 (so every Register that got to its
\* insert is answered 201 or 409).
C23_ConcurrentRegister ==
    /\ \A u, v \in users : Alike(u, v) => u = v
    /\ \A r \in flight : (r.op = "Register" /\ r.done) => r.res.status \in {201, 409}
    /\ (resp.op = "Register" /\ resp.res.status >= 400)
          => resp.res.status \in {400, 409, 429}

\* C24: in the client, with nobody logged in (after handleLogout) the jobs
\* list is empty and stats is null, also when a fetchJobs or fetchStats sent
\* before the logout gets its response after it; and the jobs the client
\* holds while a user is logged in are records of that user.
C24_LogoutClears ==
    \A c \in Clients :
        /\ ui[c].user = NoUser => (ui[c].jobs = <<>> /\ ui[c].stats = NoStats)
        /\ \A i \in DOMAIN ui[c].jobs : ui[c].jobs[i].user_id = ui[c].user.id

=============================================================================
